---- MODULE Spec2Model ----
(***************************************************************************)
(* State-machine model of the digital camera session controller            *)
(* (main.py) and of the polled input line (GPIO_interface.py, Switch).     *)
(*                                                                         *)
(* Python values are modelled as follows.                                  *)
(*   None            the empty tuple <<>>; a present value v is <<v>>      *)
(*   str             a tuple of one-character strings; "sup2" stands for   *)
(*                   the character SUPERSCRIPT TWO, "arabic3" for          *)
(*                   ARABIC-INDIC DIGIT THREE, and "uXXXX" for the         *)
(*                   character U+XXXX where TLA+ has no escape for it      *)
(*                   ("u000b" is the vertical tab, "u00a0" the no-break    *)
(*                   space)                                                *)
(*   float fps       an exact fraction <<numerator, denominator>> in       *)
(*                   lowest terms (floating-point rounding is not modelled)*)
(*   time.time()     the integer variable now; it moves while the loop     *)
(*                   blocks in cap.read(); two reads of the clock may      *)
(*                   return the same value                                 *)
(*   the file system dirs, the DCIM directories that exist, and files, a   *)
(*                   function from the paths of the files to their         *)
(*                   contents; a path is the str the program passes to     *)
(*                   the operating system, so a relative path and an       *)
(*                   absolute one name different files                     *)
(*   a picture       a string: a camera frame, or a frame with "@screen"   *)
(*                   and the overlay text appended once it was resized and *)
(*                   blended for the display                               *)
(*   an exception    leaves the step it is raised in: the assignments made *)
(*                   before it stay, those after it are not made.  A       *)
(*                   KeyboardInterrupt is raised between two statements of *)
(*                   the loop body or of trigger_callback(); one delivered *)
(*                   inside get_sd_path() is swallowed by its bare except  *)
(*                   and is the outcome raised of the media lookup.  One   *)
(*                   delivered inside the finally block is not caught:     *)
(*                   the calls not yet made are skipped and main() ends.   *)
(*                                                                         *)
(* Spec is the session run by main().  SpecFair adds that the finally      *)
(* block runs once the loop is left.  SpecCallback adds a call of          *)
(* trigger_callback() before main() starts.  SpecNaming calls              *)
(* get_next_filename() on its own on a range of directories.               *)
(***************************************************************************)
EXTENDS Integers, Sequences, FiniteSets, TLC

VARIABLES
  pc,                    \* position of main(): start, the five points of the loop body, cleanup, done, exited
  mode_switch,           \* Switch(31): [state, prev_state, callback], None before construction
  trigger,               \* Switch(32, callback=trigger_callback)
  current_mode,          \* 0 = cam, 1 = video
  last_frame,            \* None or Some(frame)
  is_recording,
  video_writer,          \* None or Some(path of the file the writer object was opened on)
  video_filepath,        \* None or Some(path)
  camera_fps,            \* fraction <<n, d>>
  recording_start_time,  \* None or Some(time)
  recording_frame_count,
  prev_mode,             \* local of main(): None or Some(level)
  overlay_text,          \* overlay_elements["mode"]["text"]
  overlay_buf,           \* text drawn in the overlay pixel buffer, None = all zero
  now,                   \* time.time()
  mount_point,           \* where the operating system mounts /dev/sda1 in this session
  dirs,                  \* the DCIM directories that exist, by path
  files,                 \* path -> [n, open, data]
  cleanup_log,           \* the calls made by the finally block, in order
  exit_cause,            \* why the loop was left
  fired,                 \* history: the last Switch.update() invoked a callback (until the mode update)
  sampled,               \* history: last level sampled on each line, None before the first sample
  media,                 \* history: what get_sd_path() returned in the trigger poll of this tick (until the mode update)
  read_ev,               \* input of the last cap.read() of the loop: None or Some(ret)
  produced,              \* history: the output paths get_next_filename() returned to trigger_callback(), in order
  frame,                 \* local of main(): None or Some(picture), what cap.read() returned, then the display picture
  shown,                 \* the picture last passed to cv2.imshow: None or Some(picture)
  mode_edge,             \* history: the mode poll of this tick saw the level change (until the mode update)
  rebuilt,               \* history: rebuild_overlay() ran in the mode update of this tick (until the frame read)
  released,              \* history: the files whose writer release() was called on, in order
  rec_ticks,             \* history: frames acquired while recording since the last recording start
  returned               \* result of a direct call of get_next_filename(): None or Some([prefix, ext, raised, value])

vars == <<pc, mode_switch, trigger, current_mode, last_frame, is_recording,
          video_writer, video_filepath, camera_fps, recording_start_time,
          recording_frame_count, prev_mode, overlay_text, overlay_buf, now,
          mount_point, dirs, files, cleanup_log, exit_cause, fired, sampled,
          media, read_ev, produced, frame, shown, mode_edge, rebuilt,
          released, rec_ticks, returned>>

----------------------------------------------------------------------------
(* Bounds of the model *)

MaxTime == 2          \* the clock ranges over 0..MaxTime
MaxFrames == 2        \* frames appended to one recording
MaxFiles == 2         \* output files produced in one session

ClockSteps == {0, 1, 2}
CalFrames == {0, 10}     \* frames read during start-up calibration
CalElapsed == {1}        \* seconds the calibration window lasted
Frames == {"frame"}      \* the frame contents the camera delivers
Levels == {0, 1}

----------------------------------------------------------------------------
(* Python values *)

None == <<>>
Some(v) == <<v>>

RECURSIVE Gcd(_, _)
Gcd(a, b) == IF b = 0 THEN a ELSE Gcd(b, a % b)

\* n / d as a float, kept exact; d > 0
Div(n, d) == <<n \div Gcd(n, d), d \div Gcd(n, d)>>

DigitChars == <<"0", "1", "2", "3", "4", "5", "6", "7", "8", "9">>

\* decimal digits of other scripts: str.isdigit() accepts them and int()
\* converts them (ARABIC-INDIC DIGIT THREE is 3)
UnicodeDecimals == [c \in {"arabic3"} |-> 3]

\* characters str.isdigit() accepts and int() rejects (superscript two)
OtherDigits == {"sup2"}

IsDigitChar(c) ==
  \/ \E i \in 1..10 : DigitChars[i] = c
  \/ c \in DOMAIN UnicodeDecimals
  \/ c \in OtherDigits

DigitVal(c) ==
  IF c \in DOMAIN UnicodeDecimals THEN UnicodeDecimals[c]
  ELSE CHOOSE i \in 0..9 : DigitChars[i + 1] = c

\* str.isdigit()
isdigit(s) == Len(s) > 0 /\ \A i \in 1..Len(s) : IsDigitChar(s[i])

\* int(s) raises ValueError, for s that passed isdigit()
int_raises(s) == \E i \in 1..Len(s) : s[i] \in OtherDigits

\* int(s) for a string of decimal digits
RECURSIVE int(_)
int(s) == IF s = <<>> THEN 0
          ELSE int(SubSeq(s, 1, Len(s) - 1)) * 10 + DigitVal(s[Len(s)])

\* the decimal digits of n >= 0
RECURSIVE Decimal(_)
Decimal(n) == IF n < 10 THEN <<DigitChars[n + 1]>>
              ELSE Decimal(n \div 10) \o <<DigitChars[(n % 10) + 1]>>

\* f"{n:03d}"
Format03d(n) == LET d == Decimal(n)
                IN IF Len(d) >= 3 THEN d ELSE [i \in 1..(3 - Len(d)) |-> "0"] \o d

startswith(f, p) == Len(f) >= Len(p) /\ SubSeq(f, 1, Len(p)) = p

endswith(f, e) == Len(f) >= Len(e) /\ SubSeq(f, Len(f) - Len(e) + 1, Len(f)) = e

\* f[len(prefix):-len(ext)]; with an empty ext the slice f[len(prefix):-0]
\* is the empty string
num_part(f, prefix, ext) ==
  IF Len(ext) = 0 THEN <<>>
  ELSE SubSeq(f, Len(prefix) + 1, Len(f) - Len(ext))

Max(S) == CHOOSE x \in S : \A y \in S : y <= x

\* sub in s
contains(s, sub) ==
  \E i \in 1..(Len(s) - Len(sub) + 1) : SubSeq(s, i, i + Len(sub) - 1) = sub

\* s.find(sub) + 1 for a sub that occurs in s
find(s, sub) ==
  CHOOSE i \in 1..(Len(s) - Len(sub) + 1) :
    /\ SubSeq(s, i, i + Len(sub) - 1) = sub
    /\ \A j \in 1..(i - 1) : SubSeq(s, j, j + Len(sub) - 1) # sub

\* s.split(sep): the pieces between the occurrences of sep, taken from the left
RECURSIVE split(_, _)
split(s, sep) ==
  IF ~contains(s, sep) THEN <<s>>
  ELSE LET i == find(s, sep)
       IN <<SubSeq(s, 1, i - 1)>> \o split(SubSeq(s, i + Len(sep), Len(s)), sep)

\* the characters str.isspace() accepts, which str.strip() removes: the ASCII
\* ones, the separators U+001C..U+001F, NEXT LINE, NO-BREAK SPACE and the
\* Unicode spaces and line separators
Whitespace ==
  { " ", "\t", "\n", "\r", "\f", "u000b", "u001c", "u001d", "u001e", "u001f",
    "u0085", "u00a0", "u1680", "u2000", "u2001", "u2002", "u2003", "u2004",
    "u2005", "u2006", "u2007", "u2008", "u2009", "u200a", "u2028", "u2029",
    "u202f", "u205f", "u3000" }

\* s.lstrip(chars)
RECURSIVE lstrip(_, _)
lstrip(s, chars) ==
  IF s # <<>> /\ s[1] \in chars THEN lstrip(Tail(s), chars) ELSE s

\* s.rstrip(chars)
RECURSIVE rstrip(_, _)
rstrip(s, chars) ==
  IF s # <<>> /\ s[Len(s)] \in chars THEN rstrip(SubSeq(s, 1, Len(s) - 1), chars) ELSE s

\* s.strip()
strip(s) == rstrip(lstrip(s, Whitespace), Whitespace)

UpperCase == <<"A", "B", "C", "D", "E", "F", "G", "H", "I", "J",
      "K", "L", "M", "N", "O", "P", "Q", "R", "S", "T", "U", "V", "W", "X", "Y", "Z">>
LowerCase == <<"a", "b", "c", "d", "e", "f", "g", "h", "i", "j",
      "k", "l", "m", "n", "o", "p", "q", "r", "s", "t", "u", "v", "w", "x", "y", "z">>

\* s.lower()
lower(s) ==
  [i \in 1..Len(s) |->
     IF \E k \in 1..26 : UpperCase[k] = s[i]
       THEN LowerCase[CHOOSE k \in 1..26 : UpperCase[k] = s[i]]
       ELSE s[i]]

\* os.path.join(a, b)
path_join(a, b) ==
  IF startswith(b, <<"/">>) THEN b
  ELSE IF a = <<>> \/ endswith(a, <<"/">>) THEN a \o b
  ELSE a \o <<"/">> \o b

\* os.path.basename(path)
basename(path) ==
  LET slashes == { i \in 1..Len(path) : path[i] = "/" }
  IN IF slashes = {} THEN path
     ELSE SubSeq(path, Max(slashes) + 1, Len(path))

\* os.listdir(d): the names of the files of directory d
listdir(d) ==
  { basename(p) : p \in { q \in DOMAIN files : path_join(d, basename(q)) = q } }

IMG == <<"i", "m", "g", "_">>
JPG == <<".", "j", "p", "g">>
MOV == <<"m", "o", "v", "_">>
MP4 == <<".", "m", "p", "4">>
DCIM == <<"D", "C", "I", "M">>

----------------------------------------------------------------------------
(* Media resolver, lines 28-44 *)

\* what udisksctl prints on stdout when it mounts the card at m
udisks_stdout(m) == <<"M", "o", "u", "n", "t", "e", "d", " ", "/",
      "d", "e", "v", "/", "s", "d", "a", "1", " ", "a", "t", " ">> \o m \o <<".", "\n">>

\* what udisksctl prints on stderr when the card is already mounted at m
udisks_already(m) == <<"E", "r", "r", "o", "r", " ", "m", "o",
      "u", "n", "t", "i", "n", "g", " ", "/", "d", "e", "v", "/",
            "s", "d", "a", "1", ":", " ", "D", "e", "v", "i", "c",
                  "e", " ", "/", "d", "e", "v", "/", "s", "d",
                        "a", "1", " ", "i", "s", " ", "a", "l",
                              "r", "e", "a", "d", "y", " ", "m",
                                    "o", "u", "n", "t", "e", "d",
                                          " ", "a", "t", " ">> \o m \o <<".", "\n">>

udisks_no_device == <<"E", "r", "r", "o", "r", " ", "l", "o", "o",
      "k", "i", "n", "g", " ", "u", "p", " ", "o", "b", "j", "e",
            "c", "t", " ", "f", "o", "r", " ", "d", "e", "v", "i",
                  "c", "e", " ", "/", "d", "e", "v", "/", "s", "d", "a", "1", ".", "\n">>

\* The outcomes of the two subprocesses get_sd_path() runs, for a card the
\* operating system mounts at m:
\*   raised       subprocess.run raised (timeout, udisksctl missing, Ctrl-C)
\*   rc           udisksctl's return code
\*   stdout       its standard output
\*   stderr       its standard error
\*   find_rc      findmnt's return code
\*   find_stdout  findmnt's standard output
SdOutcomes(m) ==
  { [raised |-> TRUE, rc |-> 1, stdout |-> <<>>, stderr |-> <<>>,
     find_rc |-> 1, find_stdout |-> <<>>],
    [raised |-> FALSE, rc |-> 0, stdout |-> udisks_stdout(m), stderr |-> <<>>,
     find_rc |-> 1, find_stdout |-> <<>>],
    [raised |-> FALSE, rc |-> 1, stdout |-> <<>>, stderr |-> udisks_already(m),
     find_rc |-> 0, find_stdout |-> m \o <<"\n">>],
    [raised |-> FALSE, rc |-> 1, stdout |-> <<>>, stderr |-> udisks_already(m),
     find_rc |-> 1, find_stdout |-> <<>>],
    [raised |-> FALSE, rc |-> 1, stdout |-> <<>>, stderr |-> udisks_no_device,
     find_rc |-> 1, find_stdout |-> <<>>] }

\* lines 34-35: the lines of stdout that hold "Mounted" and "at"
mounted_lines(stdout) ==
  SelectSeq(split(stdout, <<"\n">>),
            LAMBDA line : contains(line, <<"M", "o", "u", "n",
                  "t", "e", "d">>) /\ contains(line, <<"a", "t">>))

\* line 36: line.split("at")[-1].strip().rstrip('.')
parse_mounted(line) ==
  LET pieces == split(line, <<"a", "t">>)
  IN rstrip(strip(pieces[Len(pieces)]), {"."})

get_sd_path(o) ==
  IF o.raised THEN None
  ELSE IF o.rc = 0 /\ mounted_lines(o.stdout) # <<>>
    THEN Some(parse_mounted(Head(mounted_lines(o.stdout))))
  ELSE IF contains(lower(o.stderr), <<"a", "l", "r", "e", "a",
        "d", "y", " ", "m", "o", "u", "n", "t", "e", "d">>) /\ o.find_rc = 0
    THEN Some(strip(o.find_stdout))
  ELSE None

\* the mount points of the cards of the model
MountPoints == { <<"/", "m", "e", "d", "i", "a", "/", "s", "d">>, <<"/",
      "m", "e", "d", "i", "a", "/", "d", "a", "t", "a">> }

\* what get_sd_path() may return in a session whose card the operating system
\* mounts at m
sd_paths == [m \in MountPoints |-> { get_sd_path(o) : o \in SdOutcomes(m) }]

\* os.path.join(mount_path, "DCIM")
dcim_path_of(mount_path) == path_join(mount_path, DCIM)

----------------------------------------------------------------------------
(* File naming, lines 46-54 *)

\* the entries lines 50-53 pass to int()
Parsed(listing, prefix, ext) ==
  { g \in listing : /\ startswith(g, prefix)
                    /\ endswith(g, ext)
                    /\ isdigit(num_part(g, prefix, ext)) }

\* the numeric suffixes of the entries prefix<digits>ext of a listing
Suffixes(listing, prefix, ext) ==
  { int(num_part(f, prefix, ext)) : f \in Parsed(listing, prefix, ext) }

\* the file name get_next_filename() proposes for a directory listing
next_name(listing, prefix, ext) ==
  LET highest == Max(Suffixes(listing, prefix, ext) \cup {0})
  IN prefix \o Format03d(highest + 1) \o ext

\* line 54: os.path.join(dcim_path, name)
get_next_filename(dcim_path, listing, prefix, ext) ==
  path_join(dcim_path, next_name(listing, prefix, ext))

\* lines 46-54 as a call: os.listdir() raises FileNotFoundError when the
\* directory does not exist, int() raises ValueError on a digit it rejects
call_get_next_filename(exists, dcim_path, listing, prefix, ext) ==
  IF ~exists
    THEN [raised |-> "FileNotFoundError", value |-> None]
  ELSE IF \E g \in Parsed(listing, prefix, ext) : int_raises(num_part(g, prefix, ext))
    THEN [raised |-> "ValueError", value |-> None]
  ELSE [raised |-> "no", value |-> Some(get_next_filename(dcim_path, listing, prefix, ext))]

----------------------------------------------------------------------------
(* Frame rate calibration, main() lines 113-119 *)

calibrate(frames, elapsed) == IF frames > 0 THEN Div(frames, elapsed) ELSE <<10, 1>>

----------------------------------------------------------------------------
(* Input line *)

\* Switch.update() without the first-sample check of line 30
SwitchUpdate_NoFirstSampleCheck(sw, new_state) ==
  [call |-> /\ Some(new_state) # sw.prev_state
            /\ sw.callback # None,
   sw   |-> [sw EXCEPT !.prev_state = Some(new_state), !.state = new_state]]

SwitchInit(pin, callback) ==
  [pin |-> pin, state |-> 0, prev_state |-> None, callback |-> callback]

\* Switch.update() with new_state the level get_state() returns:
\* call says whether the callback is invoked, sw is the switch afterwards
\* (lines 34-35, reached when the callback returns)
SwitchUpdate(sw, new_state) ==
  [call |-> /\ sw.prev_state # None
            /\ Some(new_state) # sw.prev_state
            /\ sw.callback # None,
   sw   |-> [sw EXCEPT !.prev_state = Some(new_state), !.state = new_state]]

----------------------------------------------------------------------------
(* Initial state: the module globals of main.py, lines 19-26, before main() *)

\* The cards the session may start with: where the card is mounted, whether
\* it has a DCIM directory, and the files in it
InitialCards ==
  { [mount |-> <<"/", "m", "e", "d", "i", "a", "/", "d", "a", "t",
        "a">>, dcim |-> FALSE, names |-> {}],
    [mount |-> <<"/", "m", "e", "d", "i", "a", "/", "s", "d">>, dcim |-> TRUE,
     names |-> { <<"i", "m", "g", "_", "0", "0", "7", ".", "j",
           "p", "g">>, <<"i", "m", "g", "_", "0", "1", "0", ".",
                 "j", "p", "g">>, <<"i", "m", "g", "_", "x", ".",
                       "j", "p", "g">>, <<"m", "o", "v", "_", "9", ".", "m", "p", "4">> }],
    [mount |-> <<"/", "m", "e", "d", "i", "a", "/", "s", "d">>, dcim |-> TRUE,
     names |-> { <<"i", "m", "g", "_", "sup2", ".", "j", "p", "g">>, <<"m",
           "o", "v", "_", "sup2", ".", "m", "p", "4">> }] }

Closed(img) == [n |-> 1, open |-> FALSE, data |-> Some(img)]

InitWith(c) ==
  /\ pc = "start"
  /\ mode_switch = None
  /\ trigger = None
  /\ current_mode = 0
  /\ last_frame = None
  /\ is_recording = FALSE
  /\ video_writer = None
  /\ video_filepath = None
  /\ camera_fps = <<10, 1>>
  /\ recording_start_time = None
  /\ recording_frame_count = 0
  /\ prev_mode = None
  /\ overlay_text = None
  /\ overlay_buf = None
  /\ now = 0
  /\ mount_point = c.mount
  /\ dirs = IF c.dcim THEN {dcim_path_of(c.mount)} ELSE {}
  /\ files = [p \in { path_join(dcim_path_of(c.mount), f) : f \in c.names }
                |-> Closed("frame")]
  /\ cleanup_log = <<>>
  /\ exit_cause = "none"
  /\ fired = FALSE
  /\ sampled = [mode |-> None, trig |-> None]
  /\ media = None
  /\ read_ev = None
  /\ produced = <<>>
  /\ frame = None
  /\ shown = None
  /\ mode_edge = FALSE
  /\ rebuilt = FALSE
  /\ released = <<>>
  /\ rec_ticks = 0
  /\ returned = None

Init == \E c \in InitialCards : InitWith(c)

----------------------------------------------------------------------------
(* main(): start-up, lines 108-137 *)

globals == <<current_mode, last_frame, is_recording, video_writer,
             video_filepath, camera_fps, recording_start_time,
             recording_frame_count>>
card == <<mount_point, dirs, files>>
overlay == <<prev_mode, overlay_text, overlay_buf>>
history == <<fired, sampled, media, read_ev, produced>>
ticklog == <<frame, shown, mode_edge, rebuilt, released, rec_ticks, returned>>

\* cap.isOpened() is false: sys.exit(1) before the try block
CameraOpenFails ==
  /\ pc = "start"
  /\ pc' = "exited"
  /\ exit_cause' = "no_camera"
  /\ UNCHANGED <<globals, card, history, ticklog, mode_switch, trigger,
                 prev_mode, overlay_text, overlay_buf, now, cleanup_log>>

Startup ==
  /\ pc = "start"
  /\ \E frames \in CalFrames, elapsed \in CalElapsed :
       camera_fps' = calibrate(frames, elapsed)
  /\ mode_switch' = SwitchInit(31, None)
  /\ trigger' = SwitchInit(32, Some("trigger_callback"))
  /\ overlay_buf' = None
  /\ overlay_text' = Some("cam")
  /\ prev_mode' = None
  /\ pc' = "poll_mode"
  /\ UNCHANGED <<current_mode, last_frame, is_recording, video_writer,
                 video_filepath, recording_start_time, recording_frame_count,
                 card, history, ticklog, now, cleanup_log, exit_cause>>

\* the statements of lines 113-135 after which a Ctrl-C may stop the start-up
StartupCuts == {"L118", "L119", "L129", "L130", "L134"}

\* Ctrl-C during the start-up, lines 113-137: the KeyboardInterrupt is raised
\* before the try statement of line 139, so main() is left with neither the
\* except clause nor the finally block run
StartupInterrupted ==
  /\ pc = "start"
  /\ pc' = "exited"
  /\ exit_cause' = "interrupt"
  /\ \E cut \in StartupCuts :
       /\ camera_fps' \in IF cut = "L118" THEN {camera_fps}
                          ELSE { calibrate(frames, elapsed) :
                                   frames \in CalFrames, elapsed \in CalElapsed }
       /\ mode_switch' = IF cut \in {"L118", "L119"} THEN mode_switch
                         ELSE SwitchInit(31, None)
       /\ trigger' = IF cut \in {"L130", "L134"}
                       THEN SwitchInit(32, Some("trigger_callback"))
                       ELSE trigger
       /\ overlay_text' = IF cut = "L134" THEN Some("cam") ELSE overlay_text
  /\ UNCHANGED <<current_mode, last_frame, is_recording, video_writer,
                 video_filepath, recording_start_time, recording_frame_count,
                 card, history, ticklog, now, cleanup_log, prev_mode,
                 overlay_buf>>

----------------------------------------------------------------------------
(* trigger_callback(), lines 56-96.  sd is what get_sd_path() returns, mk   *)
(* whether the operating system lets a missing DCIM directory be made, and  *)
(* cut the statement after which a KeyboardInterrupt ends the call ("end"   *)
(* when the call runs until it returns or raises by itself).                *)

\* the files with the file at path created or replaced
with_file(path, content) ==
  [f \in DOMAIN files \cup {path} |-> IF f = path THEN content ELSE files[f]]

\* lines 72-76: photo mode, whatever the recording status
SavePhoto(dcim_path, cut) ==
  LET r == call_get_next_filename(TRUE, dcim_path, listdir(dcim_path), IMG, JPG)
  IN /\ IF r.raised # "no"
          THEN UNCHANGED <<files, produced>>
          ELSE /\ produced' = Append(produced, r.value[1])
               /\ files' = IF cut = "L73" THEN files
                           ELSE with_file(r.value[1], Closed(last_frame[1]))
     /\ UNCHANGED <<is_recording, video_writer, video_filepath, camera_fps,
                    recording_start_time, recording_frame_count, released,
                    rec_ticks>>

\* lines 78-86 without the counter reset of line 85
StartRecording_NoCountReset(dcim_path, cut) ==
  LET r == call_get_next_filename(TRUE, dcim_path, listdir(dcim_path), MOV, MP4)
  IN IF r.raised # "no"
       THEN UNCHANGED <<is_recording, video_writer, video_filepath, camera_fps,
                        recording_start_time, recording_frame_count, files,
                        produced, released, rec_ticks>>
       ELSE /\ video_filepath' = Some(r.value[1])
            /\ produced' = Append(produced, r.value[1])
            /\ files' = with_file(r.value[1], [n |-> 0, open |-> TRUE, data |-> None])
            /\ video_writer' = Some(r.value[1])
            /\ is_recording' = TRUE
            /\ recording_start_time' = Some(now)
            /\ rec_ticks' = 0
            /\ UNCHANGED <<camera_fps, released, recording_frame_count>>

\* lines 78-86: video mode, not recording
StartRecording(dcim_path, cut) ==
  LET r == call_get_next_filename(TRUE, dcim_path, listdir(dcim_path), MOV, MP4)
  IN IF r.raised # "no"
       THEN UNCHANGED <<is_recording, video_writer, video_filepath, camera_fps,
                        recording_start_time, recording_frame_count, files,
                        produced, released, rec_ticks>>
       ELSE /\ video_filepath' = Some(r.value[1])
            /\ produced' = Append(produced, r.value[1])
            /\ files' = CASE cut = "L79" -> files
                          [] cut = "L81c" ->
                               with_file(r.value[1], [n |-> 0, open |-> FALSE, data |-> None])
                          [] OTHER ->
                               with_file(r.value[1], [n |-> 0, open |-> TRUE, data |-> None])
            /\ video_writer' = IF cut \in {"L79", "L81c"} THEN video_writer
                               ELSE Some(r.value[1])
            /\ is_recording' = IF cut \in {"L79", "L81c", "L81"} THEN is_recording
                               ELSE TRUE
            /\ recording_start_time' = IF cut \in {"L84", "end"} THEN Some(now)
                                       ELSE recording_start_time
            /\ recording_frame_count' = IF cut = "end" THEN 0
                                        ELSE recording_frame_count
            /\ rec_ticks' = IF cut = "end" THEN 0 ELSE rec_ticks
            /\ UNCHANGED <<camera_fps, released>>

\* lines 93-94 without the test on the elapsed time
stop_rate_NoElapsedGuard(count, elapsed, fps) ==
  IF count > 0 THEN Div(count, elapsed) ELSE fps

\* lines 93-94: the rate after a recording of count frames in elapsed seconds
stop_rate(count, elapsed, fps) ==
  IF elapsed > 0 /\ count > 0 THEN Div(count, elapsed) ELSE fps

\* lines 87-96 if the stop also forgot the output path
StopRecording_ClearsPath(cut) ==
  /\ IF video_writer # None
       THEN /\ files' = [files EXCEPT ![video_writer[1]].open = FALSE]
            /\ released' = Append(released, video_writer[1])
            /\ video_writer' = None
            /\ camera_fps' = stop_rate(recording_frame_count,
                                       now - recording_start_time[1], camera_fps)
       ELSE UNCHANGED <<files, video_writer, camera_fps, released>>
  /\ is_recording' = FALSE
  /\ video_filepath' = None
  /\ UNCHANGED <<recording_start_time, recording_frame_count, produced,
                 rec_ticks>>

\* lines 87-96: video mode, recording
StopRecording(cut) ==
  /\ IF video_writer # None
       THEN /\ files' = [files EXCEPT ![video_writer[1]].open = FALSE]
            /\ released' = Append(released, video_writer[1])
            /\ video_writer' = IF cut = "L89" THEN video_writer ELSE None
            /\ camera_fps' = IF cut \in {"L89", "L90"} THEN camera_fps
                             ELSE stop_rate(recording_frame_count,
                                            now - recording_start_time[1],
                                            camera_fps)
       ELSE UNCHANGED <<files, video_writer, camera_fps, released>>
  /\ is_recording' = IF cut = "end" THEN FALSE ELSE is_recording
  /\ UNCHANGED <<video_filepath, recording_start_time, recording_frame_count,
                 produced, rec_ticks>>

\* line 72 if it tested the level just sampled instead of current_mode
TriggerBranch_NewLevel ==
  IF mode_switch.state = 0 THEN "photo"
  ELSE IF ~is_recording THEN "start" ELSE "stop"

\* line 72 and line 78: what a trigger edge does once media is resolved
TriggerBranch ==
  IF current_mode = 0 THEN "photo"
  ELSE IF ~is_recording THEN "start" ELSE "stop"

\* line 70: os.makedirs(dcim_path, exist_ok=True) raises OSError when the
\* directory is missing and cannot be made
makedirs_raises(dcim_path, mk) == dcim_path \notin dirs /\ ~mk

\* lines 61-96 with the DCIM directory made before the media check of line 65
trigger_callback_MkdirFirst(sd, mk, cut) ==
  IF sd = None
    THEN /\ dirs' = dirs \cup {DCIM}
         /\ UNCHANGED <<is_recording, video_writer, video_filepath, camera_fps,
                        recording_start_time, recording_frame_count, files,
                        produced, released, rec_ticks>>
  ELSE IF makedirs_raises(dcim_path_of(sd[1]), mk)
    THEN UNCHANGED <<is_recording, video_writer, video_filepath, camera_fps,
                     recording_start_time, recording_frame_count, dirs, files,
                     produced, released, rec_ticks>>
    ELSE /\ dirs' = dirs \cup {dcim_path_of(sd[1])}
         /\ CASE TriggerBranch = "photo" -> SavePhoto(dcim_path_of(sd[1]), cut)
              [] TriggerBranch = "start" -> StartRecording(dcim_path_of(sd[1]), cut)
              [] TriggerBranch = "stop"  -> StopRecording(cut)

\* lines 61-96 once the frame check of line 61 has passed
trigger_callback(sd, mk, cut) ==
  IF sd = None \/ makedirs_raises(dcim_path_of(sd[1]), mk)
    THEN UNCHANGED <<is_recording, video_writer, video_filepath, camera_fps,
                     recording_start_time, recording_frame_count, dirs, files,
                     produced, released, rec_ticks>>
    ELSE /\ dirs' = dirs \cup {dcim_path_of(sd[1])}
         /\ IF cut = "L70"
              THEN UNCHANGED <<is_recording, video_writer, video_filepath,
                               camera_fps, recording_start_time,
                               recording_frame_count, files, produced,
                               released, rec_ticks>>
              ELSE CASE TriggerBranch = "photo" -> SavePhoto(dcim_path_of(sd[1]), cut)
                     [] TriggerBranch = "start" -> StartRecording(dcim_path_of(sd[1]), cut)
                     [] TriggerBranch = "stop"  -> StopRecording(cut)

\* the exception a call of trigger_callback() ends with, "no" when it returns
callback_raises(sd, mk) ==
  IF last_frame = None \/ sd = None THEN "no"
  ELSE IF makedirs_raises(dcim_path_of(sd[1]), mk) THEN "OSError"
  ELSE CASE TriggerBranch = "photo" ->
              call_get_next_filename(TRUE, dcim_path_of(sd[1]),
                                     listdir(dcim_path_of(sd[1])), IMG, JPG).raised
         [] TriggerBranch = "start" ->
              call_get_next_filename(TRUE, dcim_path_of(sd[1]),
                                     listdir(dcim_path_of(sd[1])), MOV, MP4).raised
         [] TriggerBranch = "stop" -> "no"

Exceptions == {"OSError", "ValueError"}

\* the statements of lines 70-96 after which a KeyboardInterrupt may end this
\* call of trigger_callback(); L81c is inside the constructor of line 81, the
\* file made and the writer not yet assigned
CallbackCuts(sd, mk) ==
  IF last_frame = None \/ sd = None \/ callback_raises(sd, mk) = "OSError"
    THEN {}
  ELSE {"L70"} \cup
       CASE callback_raises(sd, mk) # "no" -> {}
         [] TriggerBranch = "photo" -> {"L73", "L74"}
         [] TriggerBranch = "start" -> {"L79", "L81c", "L81", "L83", "L84"}
         [] TriggerBranch = "stop" /\ video_writer # None -> {"L89", "L90", "L94"}
         [] OTHER -> {}

\* whether this call of trigger_callback(), run until cut, is given a new
\* output path by line 73 or 79: the frame and the media are there, line 70
\* has made the directory and has been passed, and get_next_filename()
\* returns
Produces(sd, mk, cut) ==
  /\ last_frame # None
  /\ sd # None
  /\ TriggerBranch \in {"photo", "start"}
  /\ callback_raises(sd, mk) = "no"
  /\ cut # "L70"

\* what a call of trigger_callback() may assign
callback_vars == <<is_recording, video_writer, video_filepath, camera_fps,
                   recording_start_time, recording_frame_count, dirs, files,
                   produced, released, rec_ticks>>

\* lines 56-96 with the frame check of line 61 made after the media lookup
\* and the DCIM directory
RunTriggerCallback_LateFrameCheck(sd, mk, cut) ==
  IF last_frame # None
    THEN /\ Produces(sd, mk, cut) => Len(produced) < MaxFiles
         /\ media' = sd
         /\ trigger_callback(sd, mk, cut)
    ELSE /\ media' = sd
         /\ dirs' = IF sd # None THEN dirs \cup {dcim_path_of(sd[1])} ELSE dirs
         /\ UNCHANGED <<is_recording, video_writer, video_filepath, camera_fps,
                        recording_start_time, recording_frame_count, files,
                        produced, released, rec_ticks>>

\* lines 56-96: one call of trigger_callback(), sd being what get_sd_path()
\* returns if line 64 calls it; a call that would be given one output path
\* more than MaxFiles is outside the model
RunTriggerCallback(sd, mk, cut) ==
  IF last_frame # None
    THEN /\ Produces(sd, mk, cut) => Len(produced) < MaxFiles
         /\ media' = sd
         /\ trigger_callback(sd, mk, cut)
    ELSE /\ media' = None
         /\ UNCHANGED callback_vars

----------------------------------------------------------------------------
(* main(): the loop body, lines 140-169 *)

LoopPcs == {"poll_mode", "poll_trigger", "mode_update", "read", "display"}

\* line 141: mode_switch.update()
PollModeSwitch ==
  /\ pc = "poll_mode"
  /\ \E level \in Levels :
       LET u == SwitchUpdate(mode_switch, level)
       IN /\ mode_switch' = u.sw
          /\ fired' = u.call
          /\ sampled' = [sampled EXCEPT !.mode = Some(level)]
          /\ mode_edge' = (sampled.mode # None /\ Some(level) # sampled.mode)
  /\ pc' = "poll_trigger"
  /\ UNCHANGED <<globals, card, overlay, trigger, now, cleanup_log, exit_cause,
                 media, read_ev, produced, frame, shown, rebuilt, released,
                 rec_ticks, returned>>

\* line 142: trigger.update(), the callback running inside it.  When the
\* callback raises, lines 34-35 of Switch.update() are not reached and the
\* exception leaves the loop for the finally block.
PollTrigger ==
  /\ pc = "poll_trigger"
  /\ \E level \in Levels :
       LET u == SwitchUpdate(trigger, level)
       IN /\ fired' = u.call
          /\ sampled' = [sampled EXCEPT !.trig = Some(level)]
          /\ IF u.call
               THEN \E sd \in sd_paths[mount_point], mk \in BOOLEAN :
                      /\ RunTriggerCallback(sd, mk, "end")
                      /\ IF callback_raises(sd, mk) # "no"
                           THEN /\ trigger' = trigger
                                /\ pc' = "cleanup"
                                /\ exit_cause' = callback_raises(sd, mk)
                           ELSE /\ trigger' = u.sw
                                /\ pc' = "mode_update"
                                /\ UNCHANGED exit_cause
               ELSE /\ media' = None
                    /\ trigger' = u.sw
                    /\ pc' = "mode_update"
                    /\ UNCHANGED <<callback_vars, exit_cause>>
  /\ UNCHANGED <<current_mode, last_frame, overlay, mode_switch, now,
                 cleanup_log, read_ev, frame, shown, mode_edge, rebuilt,
                 returned, mount_point>>

\* line 144 if the first tick, where prev_mode is None, did not count
ModeChanged_AfterFirstOnly ==
  prev_mode # None /\ Some(mode_switch.state) # prev_mode

\* line 144
ModeChanged == Some(mode_switch.state) # prev_mode

\* line 146
mode_text(mode) == IF mode = 0 THEN "cam" ELSE "video"

\* lines 98-103 if the buffer were left as it was
rebuild_overlay_Stale(text) == overlay_buf

\* lines 98-103: the buffer cleared, then the text of the one element drawn
rebuild_overlay(text) == text

\* lines 144-148
ModeUpdate ==
  /\ pc = "mode_update"
  /\ IF ModeChanged
       THEN /\ current_mode' = mode_switch.state
            /\ overlay_text' = Some(mode_text(mode_switch.state))
            /\ overlay_buf' = rebuild_overlay(Some(mode_text(mode_switch.state)))
            /\ prev_mode' = Some(mode_switch.state)
            /\ rebuilt' = TRUE
       ELSE /\ rebuilt' = FALSE
            /\ UNCHANGED <<current_mode, overlay>>
  /\ mode_edge' = FALSE
  /\ fired' = FALSE
  /\ media' = None
  /\ pc' = "read"
  /\ UNCHANGED <<last_frame, is_recording, video_writer, video_filepath,
                 camera_fps, recording_start_time, recording_frame_count, card,
                 sampled, read_ev, produced, mode_switch, trigger, now,
                 cleanup_log, exit_cause, frame, shown, released, rec_ticks,
                 returned>>

\* line 156 if frames were appended in video mode only
Appends_VideoModeOnly == is_recording /\ video_writer # None /\ current_mode = 1

\* line 156
Appends == is_recording /\ video_writer # None

\* line 157: video_writer.write(frame)
write(img) ==
  [files EXCEPT ![video_writer[1]] =
     [n |-> @.n + 1, open |-> @.open, data |-> Some(img)]]

\* line 161: cv2.resize to the screen size
resize(img) == img \o "@screen"

\* lines 161-165: the frame resized, then blended with the overlay buffer
\* (an all-zero buffer has alpha 0 everywhere and leaves the picture as it is)
composite(img, buf) ==
  IF buf = None THEN resize(img) ELSE resize(img) \o "+" \o buf[1]

\* line 154 if the cache took the picture made for the display
cached_Composited(img) == composite(img, overlay_buf)

\* line 154: last_frame = frame.copy(), made before the display code runs
cached(img) == img

\* lines 151-152: break on a failed read, else on to the rest of the body
after_read(ret) == IF ~ret THEN "cleanup" ELSE "display"

\* lines 150-158: cap.read(), the frame cache, the append to the open file
ReadFrame ==
  /\ pc = "read"
  /\ \E dt \in ClockSteps : now + dt \in 0..MaxTime /\ now' = now + dt
  /\ rebuilt' = FALSE
  /\ \E ret \in BOOLEAN, img \in Frames :
       /\ read_ev' = Some(ret)
       /\ frame' = IF ret THEN Some(img) ELSE None
       /\ IF ret /\ is_recording
            THEN rec_ticks < MaxFrames /\ rec_ticks' = rec_ticks + 1
            ELSE UNCHANGED rec_ticks
       /\ IF ~ret
            THEN /\ pc' = after_read(ret)
                 /\ exit_cause' = "read_fail"
                 /\ UNCHANGED <<last_frame, recording_frame_count, files>>
            ELSE /\ last_frame' = Some(cached(img))
                 /\ IF Appends
                      THEN /\ recording_frame_count < MaxFrames
                           /\ files' = write(img)
                           /\ recording_frame_count' = recording_frame_count + 1
                      ELSE UNCHANGED <<recording_frame_count, files>>
                 /\ pc' = after_read(ret)
                 /\ UNCHANGED exit_cause
  /\ UNCHANGED <<current_mode, is_recording, video_writer, video_filepath,
                 camera_fps, recording_start_time, mount_point, dirs, overlay,
                 mode_switch, trigger, cleanup_log, fired, sampled, media,
                 produced, shown, mode_edge, released, returned>>

\* lines 160-169: the local frame becomes the display picture, imshow, waitKey
Display ==
  /\ pc = "display"
  /\ frame' = Some(composite(frame[1], overlay_buf))
  /\ shown' = frame'
  /\ \E key_q \in BOOLEAN :
       IF key_q THEN pc' = "cleanup" /\ exit_cause' = "key"
                ELSE pc' = "poll_mode" /\ UNCHANGED exit_cause
  /\ UNCHANGED <<globals, card, overlay, history, mode_switch, trigger, now,
                 cleanup_log, mode_edge, rebuilt, released, rec_ticks, returned>>

----------------------------------------------------------------------------
(* lines 171-172: Ctrl-C in the loop.  The KeyboardInterrupt is raised      *)
(* between two statements of the step the loop is in, so the step has made  *)
(* the assignments up to that statement and none after it.                  *)

\* Ctrl-C in mode_switch.update(): in get_state(), or between lines 34 and 35
InterruptedPollMode ==
  /\ \/ UNCHANGED <<mode_switch, sampled, mode_edge>>
     \/ \E level \in Levels :
          /\ mode_switch' = [mode_switch EXCEPT !.prev_state = Some(level)]
          /\ sampled' = [sampled EXCEPT !.mode = Some(level)]
          /\ mode_edge' = (sampled.mode # None /\ Some(level) # sampled.mode)
  /\ UNCHANGED <<globals, card, overlay, trigger, now, fired, media, read_ev,
                 produced, frame, shown, rebuilt, released, rec_ticks, returned>>

\* Ctrl-C in trigger.update(): in get_state(); inside trigger_callback(),
\* after the statement cut; or after the callback returned, before line 34
\* or between lines 34 and 35
InterruptedPollTrigger ==
  /\ \/ UNCHANGED <<trigger, fired, sampled, media, callback_vars>>
     \/ \E level \in Levels :
          LET u == SwitchUpdate(trigger, level)
          IN /\ fired' = u.call
             /\ sampled' = [sampled EXCEPT !.trig = Some(level)]
             /\ \/ /\ u.call
                   /\ trigger' = trigger
                   /\ \E sd \in sd_paths[mount_point], mk \in BOOLEAN :
                        \E cut \in CallbackCuts(sd, mk) :
                          RunTriggerCallback(sd, mk, cut)
                \/ /\ trigger' \in {trigger, [trigger EXCEPT !.prev_state = Some(level)]}
                   /\ IF u.call
                        THEN \E sd \in sd_paths[mount_point], mk \in BOOLEAN :
                               /\ callback_raises(sd, mk) = "no"
                               /\ RunTriggerCallback(sd, mk, "end")
                        ELSE /\ media' = None
                             /\ UNCHANGED callback_vars
  /\ UNCHANGED <<current_mode, last_frame, overlay, mode_switch, now, read_ev,
                 frame, shown, mode_edge, rebuilt, returned, mount_point>>

\* Ctrl-C in lines 144-148: before line 145, or after line 145, 146, 100
\* (the buffer cleared) or 147 (the buffer drawn)
InterruptedModeUpdate ==
  /\ \/ UNCHANGED <<current_mode, overlay, rebuilt>>
     \/ /\ ModeChanged
        /\ \E cut \in {"L145", "L146", "L100", "L147"} :
             /\ current_mode' = mode_switch.state
             /\ overlay_text' = IF cut = "L145" THEN overlay_text
                                ELSE Some(mode_text(mode_switch.state))
             /\ overlay_buf' = CASE cut \in {"L145", "L146"} -> overlay_buf
                                 [] cut = "L100" -> None
                                 [] OTHER -> rebuild_overlay(Some(mode_text(mode_switch.state)))
             /\ rebuilt' = (cut = "L147")
             /\ UNCHANGED prev_mode
  /\ UNCHANGED <<last_frame, is_recording, video_writer, video_filepath,
                 camera_fps, recording_start_time, recording_frame_count, card,
                 history, mode_switch, trigger, now, frame, shown, mode_edge,
                 released, rec_ticks, returned>>

\* Ctrl-C in lines 150-158: inside cap.read(), or after line 150 (the read
\* returned), 154 (the frame cached) or 157 (the frame written, not counted)
InterruptedRead ==
  /\ \E dt \in ClockSteps : now + dt \in 0..MaxTime /\ now' = now + dt
  /\ \/ UNCHANGED <<read_ev, frame, last_frame, files, rec_ticks>>
     \/ /\ read_ev' = Some(FALSE)
        /\ frame' = None
        /\ UNCHANGED <<last_frame, files, rec_ticks>>
     \/ \E img \in Frames, cut \in {"L150", "L154", "L157"} :
          /\ cut = "L157" => Appends /\ recording_frame_count < MaxFrames
          /\ read_ev' = Some(TRUE)
          /\ frame' = Some(img)
          /\ IF is_recording
               THEN rec_ticks < MaxFrames /\ rec_ticks' = rec_ticks + 1
               ELSE UNCHANGED rec_ticks
          /\ last_frame' = IF cut = "L150" THEN last_frame ELSE Some(cached(img))
          /\ files' = IF cut = "L157" THEN write(img) ELSE files
  /\ UNCHANGED <<current_mode, is_recording, video_writer, video_filepath,
                 camera_fps, recording_start_time, recording_frame_count,
                 mount_point, dirs, overlay, mode_switch, trigger, fired,
                 sampled, media, produced, shown, mode_edge, rebuilt, released,
                 returned>>

\* Ctrl-C in lines 160-169: before line 161, after line 161 (the frame
\* resized), after line 165 (blended) or inside waitKey (shown)
InterruptedDisplay ==
  /\ \/ UNCHANGED <<frame, shown>>
     \/ frame' = Some(resize(frame[1])) /\ UNCHANGED shown
     \/ frame' = Some(composite(frame[1], overlay_buf)) /\ UNCHANGED shown
     \/ frame' = Some(composite(frame[1], overlay_buf)) /\ shown' = frame'
  /\ UNCHANGED <<globals, card, overlay, history, mode_switch, trigger, now,
                 mode_edge, rebuilt, released, rec_ticks, returned>>

KeyboardInterrupt ==
  /\ pc \in LoopPcs
  /\ pc' = "cleanup"
  /\ exit_cause' = "interrupt"
  /\ UNCHANGED cleanup_log
  /\ CASE pc = "poll_mode" -> InterruptedPollMode
       [] pc = "poll_trigger" -> InterruptedPollTrigger
       [] pc = "mode_update" -> InterruptedModeUpdate
       [] pc = "read" -> InterruptedRead
       [] pc = "display" -> InterruptedDisplay

----------------------------------------------------------------------------
(* main(): the finally block, lines 174-180 *)

\* lines 174-180: the calls of the finally block, in order
FinallyCalls(writer) ==
  (IF writer # None THEN <<"video_writer.release", "os.sync">> ELSE <<>>)
    \o <<"cap.release", "cv2.destroyAllWindows", "GPIO.cleanup">>

Cleanup ==
  /\ pc = "cleanup"
  /\ cleanup_log' = FinallyCalls(video_writer)
  /\ files' = IF video_writer # None
                THEN [files EXCEPT ![video_writer[1]].open = FALSE]
                ELSE files
  /\ released' = IF video_writer # None
                   THEN Append(released, video_writer[1])
                   ELSE released
  /\ pc' = "done"
  /\ UNCHANGED <<globals, mount_point, dirs, overlay, history, mode_switch,
                 trigger, now, exit_cause, frame, shown, mode_edge, rebuilt,
                 rec_ticks, returned>>

\* lines 174-180 cut short: a KeyboardInterrupt delivered inside the finally
\* block, before it or inside the call number made + 1, is not caught; the
\* calls not yet made are skipped and main() is left by the exception
InterruptedCleanup ==
  /\ pc = "cleanup"
  /\ \E made \in 0..(Len(FinallyCalls(video_writer)) - 1) :
       /\ cleanup_log' = SubSeq(FinallyCalls(video_writer), 1, made)
       /\ files' = IF video_writer # None /\ made >= 1
                     THEN [files EXCEPT ![video_writer[1]].open = FALSE]
                     ELSE files
       /\ released' = IF video_writer # None /\ made >= 1
                        THEN Append(released, video_writer[1])
                        ELSE released
  /\ pc' = "done"
  /\ UNCHANGED <<globals, mount_point, dirs, overlay, history, mode_switch,
                 trigger, now, exit_cause, frame, shown, mode_edge, rebuilt,
                 rec_ticks, returned>>

Next ==
  \/ CameraOpenFails
  \/ Startup
  \/ StartupInterrupted
  \/ PollModeSwitch
  \/ PollTrigger
  \/ ModeUpdate
  \/ ReadFrame
  \/ Display
  \/ KeyboardInterrupt
  \/ Cleanup
  \/ InterruptedCleanup

Spec == Init /\ [][Next]_vars

\* the finally block runs once the loop has been left
SpecFair == Spec /\ WF_vars(Cleanup)

----------------------------------------------------------------------------
(* trigger_callback(), lines 56-96, called before main() has read a frame *)

\* trigger_callback() called on the freshly loaded module
CallbackBeforeFrame ==
  /\ pc = "start"
  /\ fired' = TRUE
  /\ \E sd \in sd_paths[mount_point], mk \in BOOLEAN :
       /\ callback_raises(sd, mk) = "no"
       /\ RunTriggerCallback(sd, mk, "end")
  /\ UNCHANGED <<pc, mode_switch, trigger, current_mode, last_frame, overlay,
                 now, cleanup_log, exit_cause, sampled, read_ev, frame, shown,
                 mode_edge, rebuilt, returned, mount_point>>

NextCallback == Next \/ CallbackBeforeFrame

SpecCallback == Init /\ [][NextCallback]_vars

----------------------------------------------------------------------------
(* get_next_filename(), lines 46-54, called on its own on a directory *)

\* entries a directory may hold before the calls
NamingCandidates ==
  { <<"i", "m", "g", "_", "0", "0", "7", ".", "j", "p", "g">>, <<"i",
        "m", "g", "_", "0", "1", "0", ".", "j", "p", "g">>, <<"i",
              "m", "g", "_", "x", ".", "j", "p", "g">>, <<"i",
                    "m", "g", "_", ".", "j", "p", "g">>, <<"i",
                          "m", "g", "_", "sup2", ".", "j", "p", "g">>,
    <<"i", "m", "g", "_", "arabic3", ".", "j", "p", "g">>, <<"m",
          "o", "v", "_", "9", ".", "m", "p", "4">> }

\* the directories: one that does not exist, and every choice of entries
NamingCards ==
  { [mount |-> <<"/", "m", "e", "d", "i", "a", "/", "s", "d">>, dcim |-> FALSE, names |-> {}] }
    \cup { [mount |-> <<"/", "m", "e", "d", "i", "a", "/", "s", "d">>, dcim |-> TRUE, names |-> S] :
             S \in SUBSET NamingCandidates }

NamingArgs == { <<IMG, JPG>>, <<MOV, MP4>> }

InitNaming == \E c \in NamingCards : InitWith(c)

session == <<pc, mode_switch, trigger, globals, overlay, now, cleanup_log,
             exit_cause, fired, sampled, media, read_ev, frame, shown,
             mode_edge, rebuilt, released, rec_ticks>>

\* one call get_next_filename(<mount>/DCIM, prefix, ext)
CallGetNextFilename ==
  /\ pc = "start"
  /\ \E a \in NamingArgs :
       returned' = Some([prefix |-> a[1], ext |-> a[2]]
                         @@ call_get_next_filename(dcim_path_of(mount_point) \in dirs,
                                                   dcim_path_of(mount_point),
                                                   listdir(dcim_path_of(mount_point)),
                                                   a[1], a[2]))
  /\ UNCHANGED <<session, card, produced>>

NextNaming == CallGetNextFilename

SpecNaming == InitNaming /\ [][NextNaming]_vars

\* the numeric suffixes of the entries prefix<digits>ext whose digits int()
\* converts
DecimalSuffixes(listing, prefix, ext) ==
  { int(num_part(g, prefix, ext)) :
      g \in { h \in Parsed(listing, prefix, ext) :
                ~int_raises(num_part(h, prefix, ext)) } }

\* C11: a call of get_next_filename(dir, prefix, ext) returns prefix, then
\* m + 1 written with at least three digits, then ext, where m is the highest
\* numeric suffix among the entries prefix<digits>ext and 0 when the
\* directory is empty or does not exist; with img_007.jpg and img_010.jpg
\* the only numbered stills the name is img_011.jpg.  (A repeated call with
\* no file created in between starts from the same state, so it returns the
\* same name when this holds.)
C11_NextFilenameContract ==
  returned # None =>
    LET r == returned[1]
        d == dcim_path_of(mount_point)
        m == IF d \in dirs
               THEN Max(DecimalSuffixes(listdir(d), r.prefix, r.ext) \cup {0})
               ELSE 0
    IN /\ r.raised = "no"
       /\ basename(r.value[1]) = r.prefix \o Format03d(m + 1) \o r.ext
       /\ (/\ r.prefix = IMG
           /\ DecimalSuffixes(listdir(d), IMG, JPG) = {7, 10})
            => basename(r.value[1]) = <<"i", "m", "g", "_", "0", "1", "1", ".", "j", "p", "g">>

----------------------------------------------------------------------------
TypeOK ==
  /\ pc \in LoopPcs \cup {"start", "cleanup", "done", "exited"}
  /\ current_mode \in Levels
  /\ is_recording \in BOOLEAN
  /\ recording_frame_count \in 0..MaxFrames
  /\ now \in 0..MaxTime
  /\ Len(produced) <= MaxFiles
  /\ mode_edge \in BOOLEAN
  /\ rebuilt \in BOOLEAN
  /\ rec_ticks \in 0..MaxFrames
  /\ Len(released) <= MaxFiles + 1
  /\ exit_cause \in {"none", "no_camera", "key", "read_fail", "interrupt"}
                      \cup Exceptions

----------------------------------------------------------------------------
(* Properties of the session controller *)

\* A step of PollTrigger in which the trigger's callback ran, until it
\* returned or raised by itself.  Before the trigger is polled fired is the
\* mode switch's flag, which is never set.
TriggerEdgeStep == pc = "poll_trigger" /\ fired' /\ exit_cause' # "interrupt"

\* A step of PollTrigger in which the trigger's callback ran and returned.
TriggerReturnStep == TriggerEdgeStep /\ pc' = "mode_update"

\* C1 (as stated): whenever a recording is active, the next trigger edge
\* closes the open video file and leaves the controller not recording,
\* whatever the mode and whatever get_sd_path() returns.
C1_TriggerEdgeStopsRecording ==
  [][ (TriggerReturnStep /\ is_recording)
        => /\ ~is_recording'
           /\ video_writer' = None
           /\ \A f \in DOMAIN files' : ~files'[f].open ]_vars

\* C2: a change of the mode switch while a recording is active leaves
\* is_recording true and the same writer open, and every tick that acquires a
\* frame while recording, in either mode, appends it and increments
\* recording_frame_count.
C2_ModeChangeKeepsRecording ==
  /\ [][ (is_recording /\ pc \in {"poll_mode", "mode_update"} /\ pc' \in LoopPcs)
           => /\ is_recording'
              /\ video_writer' = video_writer
              /\ files' = files
              /\ recording_frame_count' = recording_frame_count ]_vars
  /\ [][ (is_recording /\ pc = "read" /\ pc' = "display")
           => /\ recording_frame_count' = recording_frame_count + 1
              /\ files'[video_writer[1]].n = files[video_writer[1]].n + 1
              /\ files'[video_writer[1]].open
              /\ is_recording' ]_vars

\* C2 witness: a frame has just been appended to a recording whose mode was
\* switched to Photo after it started.
C2_Witness ==
  /\ pc = "display"
  /\ is_recording
  /\ current_mode = 0
  /\ recording_frame_count = 2
  /\ files[video_writer[1]].n = 2

\* C3 (as stated): in every reachable state is_recording implies that
\* current_mode is Video.
C3_RecordingOnlyInVideoMode == is_recording => current_mode = 1

\* C4: a trigger edge while idle with no resolvable media changes neither the
\* mode, the recording status, the writer, the frame counter nor the rate,
\* creates no file or directory, and the loop goes on to its next step.
C4_NoMediaIsNoOp ==
  [][ (TriggerEdgeStep /\ ~is_recording /\ media' = None)
        => /\ UNCHANGED <<current_mode, is_recording, video_writer,
                          video_filepath, recording_frame_count,
                          recording_start_time, camera_fps, files, dirs,
                          produced, last_frame>>
           /\ pc' = "mode_update"
           /\ exit_cause' = "none" ]_vars

\* C4 witness: in VideoIdle with a cached frame, a trigger edge has just found
\* no media.
C4_Witness ==
  /\ pc = "mode_update"
  /\ fired
  /\ media = None
  /\ last_frame # None
  /\ current_mode = 1
  /\ ~is_recording
  /\ dirs = {}

\* C5 (as stated): in PhotoIdle a trigger edge with a cached frame and the
\* card mounted creates exactly one new file, an img_ file under
\* <mount>/DCIM, and leaves the mode and the recording status unchanged.
C5_PhotoCreatesOneFile ==
  [][ (TriggerEdgeStep /\ current_mode = 0 /\ ~is_recording /\ media' # None)
        => /\ Cardinality(DOMAIN files' \ DOMAIN files) = 1
           /\ \A f \in DOMAIN files : f \in DOMAIN files' /\ files'[f] = files[f]
           /\ \A f \in DOMAIN files' \ DOMAIN files :
                /\ f = path_join(dcim_path_of(mount_point), basename(f))
                /\ startswith(basename(f), IMG) /\ endswith(f, JPG)
                /\ files'[f].data = last_frame
                /\ produced' = Append(produced, f)
           /\ dcim_path_of(mount_point) \in dirs'
           /\ current_mode' = current_mode
           /\ is_recording' = is_recording ]_vars

\* C6 (as stated): in VideoIdle a trigger edge (cached frame, resolved media)
\* opens a new video file, enters recording and resets the counter to 0;
\* every tick that acquires a frame while recording appends exactly one frame
\* and adds one to the counter, so the counter is the number of frames in the
\* file; the trigger edge that stops the recording closes the file with the
\* counter at that number N and sets the rate to N/elapsed (elapsed > 0).
C6_RecordingLifecycle ==
  /\ [][ (TriggerEdgeStep /\ current_mode = 1 /\ ~is_recording /\ media' # None)
           => /\ is_recording'
              /\ recording_frame_count' = 0
              /\ video_writer' # None
              /\ DOMAIN files' \ DOMAIN files = {video_writer'[1]}
              /\ files'[video_writer'[1]] = [n |-> 0, open |-> TRUE, data |-> None]
              /\ startswith(basename(video_writer'[1]), MOV)
              /\ endswith(video_writer'[1], MP4)
              /\ video_filepath' = video_writer' ]_vars
  /\ [][ (is_recording /\ pc = "read" /\ pc' = "display")
           => /\ recording_frame_count' = recording_frame_count + 1
              /\ files'[video_writer[1]].n = files[video_writer[1]].n + 1 ]_vars
  /\ []((is_recording /\ pc \in LoopPcs)
          => /\ video_writer # None
             /\ files[video_writer[1]].n = recording_frame_count)
  /\ [][ (TriggerReturnStep /\ is_recording /\ ~is_recording')
           => /\ video_writer' = None
              /\ ~files'[video_writer[1]].open
              /\ files'[video_writer[1]].n = recording_frame_count
              /\ recording_frame_count' = recording_frame_count
              /\ recording_frame_count >= 1
              /\ LET elapsed == now - recording_start_time[1]
                 IN elapsed > 0 =>
                      camera_fps'[1] * elapsed = recording_frame_count * camera_fps'[2]
            ]_vars

\* C7: Switch.update() invokes the callback exactly on the updates where a
\* previous sample exists and differs from the level now sampled; the first
\* update never invokes it; when the callback returns the switch holds the
\* level sampled.
C7_EdgeExactlyOnChange ==
  [][ (pc = "poll_trigger" /\ exit_cause' # "interrupt")
        => /\ fired' <=> (sampled.trig # None /\ sampled'.trig # sampled.trig)
           /\ sampled.trig = None => ~fired'
           /\ pc' = "mode_update" =>
                /\ trigger'.state = sampled'.trig[1]
                /\ trigger'.prev_state = sampled'.trig ]_vars

\* C7 witness: the callback has just been invoked on a 1 -> 0 transition.
C7_Witness ==
  /\ pc = "mode_update"
  /\ fired
  /\ sampled.trig = Some(0)

\* the causes of leaving the loop: the exit key, a failed read, Ctrl-C, and
\* an exception raised by trigger_callback()
ExitCauses == {"key", "read_fail", "interrupt"} \cup Exceptions

\* C8 (as stated): every way out of the loop (exit key, failed read, keyboard
\* interrupt) goes through the cleanup, which releases a still held writer
\* and syncs, then releases the camera, the windows and GPIO, in this order
\* and with no call skipped, and leaves no file open.
C8_CleanupOnEveryExit ==
  /\ [][ (pc \in LoopPcs /\ pc' \notin LoopPcs)
           => pc' = "cleanup" /\ exit_cause' \in ExitCauses ]_vars
  /\ [][ pc = "cleanup" => pc' = "done" ]_vars
  /\ [](pc = "done" =>
          /\ exit_cause \in ExitCauses
          /\ cleanup_log =
               IF video_writer # None
                 THEN <<"video_writer.release", "os.sync", "cap.release",
                        "cv2.destroyAllWindows", "GPIO.cleanup">>
                 ELSE <<"cap.release", "cv2.destroyAllWindows", "GPIO.cleanup">>
          /\ \A f \in DOMAIN files : ~files[f].open)

\* the output paths chosen so far for video files
ChosenMov ==
  { produced[i] : i \in { j \in 1..Len(produced) :
                            startswith(basename(produced[j]), MOV) } }

\* C9 (as stated): video_filepath is set if and only if a recording is active.
C9_PathSetIffRecording == (video_filepath # None) <=> is_recording

\* the path chosen for the last recording started
LastMov ==
  produced[Max({ j \in 1..Len(produced) : startswith(basename(produced[j]), MOV) })]

\* C9 (amended): video_filepath is set whenever a recording is active or a
\* writer is held, and then names the file of the writer; it is unset until
\* the first recording of the session is started, is never unset afterwards,
\* and is always the path chosen for the last recording started.
C9_PathSetOnceRecordingStarted ==
  /\ is_recording => video_filepath # None
  /\ video_writer # None => video_filepath = video_writer
  /\ (video_filepath # None) <=> ChosenMov # {}
  /\ video_filepath # None => video_filepath[1] = LastMov

\* C9 witness: the second recording of the session has been stopped and its
\* path is still set.
C9_Witness ==
  /\ pc \in LoopPcs
  /\ ~is_recording
  /\ video_writer = None
  /\ video_filepath # None
  /\ Cardinality(ChosenMov) = 2
  /\ Len(released) = 2

\* the numeric suffix of an output path
SuffixOf(path) ==
  IF startswith(basename(path), IMG)
    THEN int(num_part(basename(path), IMG, JPG))
    ELSE int(num_part(basename(path), MOV, MP4))

SamePrefix(p, q) == startswith(basename(p), IMG) <=> startswith(basename(q), IMG)

\* C10 (as stated): the numeric suffix chosen for a prefix is greater than
\* every suffix chosen before for that prefix, and no output path is produced
\* twice.
C10_SuffixesIncrease ==
  \A i, j \in 1..Len(produced) :
    i < j => /\ produced[i] # produced[j]
             /\ SamePrefix(produced[i], produced[j])
                  => SuffixOf(produced[i]) < SuffixOf(produced[j])

----------------------------------------------------------------------------
\* a trigger poll whose callback takes the stop branch of lines 87-96
StopBranchStep ==
  /\ pc = "poll_trigger" /\ fired'
  /\ media' # None /\ current_mode = 1 /\ is_recording

\* the trigger poll whose callback stops the recording
StopStep == TriggerReturnStep /\ is_recording /\ ~is_recording'

----------------------------------------------------------------------------
\* the step of lines 144-148
ModeUpdateStep == pc = "mode_update" /\ pc' = "read"

\* C13 as stated: current_mode changes only on a tick where the mode switch
\* saw an edge, the first tick included, and on an edge while not recording
\* it toggles.
C13_ModeChangesOnlyOnEdge ==
  [][ /\ current_mode' # current_mode => mode_edge
      /\ (ModeUpdateStep /\ mode_edge /\ ~is_recording)
           => current_mode' = 1 - current_mode ]_vars

\* C13 amended: current_mode is assigned only in the mode update of a tick,
\* and then takes the level the mode switch was sampled at.  On the first
\* tick after startup (no frame read yet) it takes that level although the
\* switch reports no edge; on every later tick where the mode switch reports
\* no edge it keeps its previous value, and on each mode-switch edge while
\* idle it toggles.
C13_ModeFollowsSwitch ==
  [][ /\ current_mode' # current_mode =>
           /\ pc = "mode_update"
           /\ current_mode' = sampled.mode[1]
           /\ read_ev = None \/ mode_edge
      /\ (ModeUpdateStep /\ read_ev = None)
           => current_mode' = sampled.mode[1]
      /\ (ModeUpdateStep /\ read_ev # None /\ ~mode_edge)
           => current_mode' = current_mode
      /\ (ModeUpdateStep /\ read_ev # None /\ mode_edge /\ ~is_recording)
           => current_mode' = 1 - current_mode ]_vars

\* the first tick has put the session in Video mode, the switch having been
\* sampled once at level 1
C13_Witness ==
  /\ pc = "read" /\ read_ev = None
  /\ sampled.mode = Some(1)
  /\ current_mode = 1

----------------------------------------------------------------------------
\* a step in which trigger_callback() runs until it returns: from the trigger
\* poll, or called before main() starts
CallbackStep ==
  /\ fired' /\ exit_cause' # "interrupt"
  /\ pc = "poll_trigger" \/ (pc = "start" /\ pc' = "start")

\* C14: a call of trigger_callback() while last_frame is None resolves no
\* media, leaves the card as it is and assigns no variable of the program;
\* and as long as no frame has been cached no step touches the card, writes
\* an output file or starts a recording.
C14_NoFrameIsNoOp ==
  [][ last_frame = None =>
        /\ UNCHANGED <<card, produced, released, is_recording, video_writer,
                       video_filepath, recording_start_time,
                       recording_frame_count>>
        /\ CallbackStep =>
             /\ media' = None
             /\ UNCHANGED <<globals, overlay, mode_switch, now, frame, shown,
                            cleanup_log, exit_cause>> ]_vars

\* trigger_callback() has run with nothing cached
C14_Witness ==
  /\ pc = "start" /\ fired
  /\ last_frame = None /\ media = None
  /\ produced = <<>>

----------------------------------------------------------------------------
\* the step in which cap.read() reports failure and line 152 leaves the loop
ReadFailStep ==
  pc = "read" /\ read_ev' = Some(FALSE) /\ exit_cause' # "interrupt"

\* C15 (as stated): the tick whose cap.read() fails leaves the loop at once,
\* with no frame cached, appended or displayed; after it no input is polled
\* and no frame is read; the session then reaches the terminated state, the
\* cleanup calls made; and the only other ways out of the loop are the exit
\* key, seen after a frame was displayed, and an interrupt.
C15_ReadFailureIsFatal ==
  /\ [][ ReadFailStep =>
           /\ pc' = "cleanup" /\ exit_cause' = "read_fail"
           /\ UNCHANGED <<last_frame, recording_frame_count, files, shown>> ]_vars
  /\ [][ read_ev = Some(FALSE) =>
           /\ pc \notin LoopPcs /\ pc' \notin LoopPcs
           /\ UNCHANGED <<mode_switch, trigger, sampled, read_ev, last_frame,
                          recording_frame_count, shown>> ]_vars
  /\ (read_ev = Some(FALSE)) ~>
       (pc = "done" /\ cleanup_log = FinallyCalls(video_writer))
  /\ [][ (pc \in LoopPcs /\ pc' \notin LoopPcs /\ ~ReadFailStep) =>
           \/ exit_cause' = "key" /\ pc = "display" /\ shown' # None
           \/ exit_cause' = "interrupt" ]_vars

----------------------------------------------------------------------------
\* the step of lines 160-169
DisplayStep == pc = "display" /\ exit_cause' # "interrupt"

\* the annotation of a mode
ModeName == [m \in Levels |-> IF m = 0 THEN "cam" ELSE "video"]

\* C16: when the frame is about to be composited and displayed, the overlay
\* text and the overlay buffer both show the name of current_mode, "cam" or
\* "video", and current_mode is the level the mode switch was last sampled
\* at; the picture displayed carries that name; and the mode update of a tick
\* rebuilds the overlay exactly when the tick is the first one or the mode
\* changes in it.
C16_OverlayShowsMode ==
  /\ [](pc = "display" =>
          /\ overlay_text = Some(ModeName[current_mode])
          /\ overlay_buf = Some(ModeName[current_mode])
          /\ sampled.mode = Some(current_mode))
  /\ [][ DisplayStep =>
           \E img \in Frames :
             shown' = Some(img \o "@screen+" \o ModeName[current_mode]) ]_vars
  /\ [][ ModeUpdateStep =>
           /\ rebuilt' <=> (read_ev = None \/ current_mode' # current_mode)
           /\ rebuilt' <=> (read_ev = None \/ mode_edge) ]_vars
  /\ [][ (overlay_buf' # overlay_buf \/ (rebuilt' /\ ~rebuilt))
           => /\ pc = "mode_update"
              /\ read_ev = None \/ mode_edge ]_vars

\* a frame is about to be displayed under "video", the one before it having
\* been displayed under "cam"
C16_Witness ==
  /\ pc = "display"
  /\ shown = Some("frame@screen+cam")
  /\ current_mode = 1
  /\ overlay_buf = Some("video")

----------------------------------------------------------------------------
\* the output files written so far that hold a frame
Written(prefix) ==
  { f \in DOMAIN files :
      /\ \E i \in 1..Len(produced) : produced[i] = f
      /\ startswith(basename(f), prefix)
      /\ files[f].data # None }

\* C17: the frame kept in last_frame, the stills saved from it and the frames
\* appended to a video file are frames as the camera delivered them; only the
\* picture handed to the display has been resized and blended with the
\* overlay, and when the display code starts the local frame is still the
\* frame that was cached.
C17_StoredFramesAreRaw ==
  /\ last_frame # None => last_frame[1] \in Frames
  /\ \A f \in DOMAIN files :
       files[f].data # None => files[f].data[1] \in Frames
  /\ shown # None =>
       /\ shown[1] \notin Frames
       /\ \E img \in Frames, m \in Levels :
            shown[1] = img \o "@screen+" \o ModeName[m]
  /\ pc = "display" => frame = last_frame

\* a still has been saved, a frame appended to a recording and a picture
\* displayed
C17_Witness ==
  /\ shown # None
  /\ \E f \in Written(IMG) : files[f].data = Some("frame")
  /\ \E f \in Written(MOV) : files[f].n > 0 /\ files[f].data = Some("frame")

----------------------------------------------------------------------------
\* the video files the session has made
Opened == ChosenMov \cap DOMAIN files

\* the number of release() calls made on the writer of file f
Releases(f) == Cardinality({ i \in 1..Len(released) : released[i] = f })

\* C18 (as stated): between the steps of the running loop is_recording is
\* true exactly when a writer is held; at most one file is open, and it is
\* the file of the writer held, so no recording starts while another is
\* open; each writer opened is released at most once, is released exactly
\* when its file is closed, and has been released once the session has
\* terminated.
C18_WriterHeldIffRecording ==
  /\ pc \in LoopPcs => (is_recording <=> video_writer # None)
  /\ Cardinality({ f \in DOMAIN files : files[f].open }) <= 1
  /\ \A f \in DOMAIN files :
       files[f].open => video_writer = Some(f) /\ f \in Opened
  /\ \A i \in 1..Len(released) : released[i] \in Opened
  /\ \A f \in Opened : Releases(f) <= 1
  /\ \A f \in Opened : files[f].open <=> Releases(f) = 0
  /\ pc = "done" => \A f \in Opened : Releases(f) = 1

----------------------------------------------------------------------------
\* C19: between the steps of the running loop, while a recording is active
\* its file holds one frame for each frame read since the trigger poll that
\* started it, the frame of the start tick included, and
\* recording_frame_count is that number; once a trigger poll has stopped it,
\* the file and the counter stay at that number, so the frame of the stop
\* tick is not appended, and the number is at least 1.
C19_CountIsTicksRecorded ==
  pc \in LoopPcs =>
    /\ (is_recording /\ video_writer # None) =>
         /\ files[video_writer[1]].n = rec_ticks
         /\ recording_frame_count = rec_ticks
    /\ (is_recording /\ pc = "display") => rec_ticks >= 1
    /\ (~is_recording /\ video_filepath # None) =>
         /\ files[video_filepath[1]].n = rec_ticks
         /\ recording_frame_count = rec_ticks
         /\ rec_ticks >= 1

\* a trigger poll has just stopped a recording that ran for two ticks, and
\* the frame of the stop tick has been read
C19_Witness ==
  /\ pc = "display"
  /\ ~is_recording /\ Len(released) = 1 /\ Len(produced) = 1
  /\ recording_frame_count = 2
  /\ files[released[1]].n = 2

----------------------------------------------------------------------------
\* the level the mode switch was sampled at in the tick before this one,
\* taken from the poll history (read between the mode poll and the mode
\* update of a tick that is not the first)
ModeOfPreviousTick ==
  IF mode_edge THEN 1 - sampled.mode[1] ELSE sampled.mode[1]

\* the last output file chosen
LastProduced == basename(produced[Len(produced)])

\* C20: neither poll assigns current_mode; a trigger edge that finds media
\* and whose callback returns has acted by the mode of the previous tick,
\* also when the mode switch changed level in this tick: Photo saves one
\* still and leaves the recording status, Video starts a recording when none
\* is active and stops the active one.  This holding on every tick, the level
\* sampled in a tick decides the trigger edges of the next.
C20_TriggerUsesPreviousMode ==
  /\ [][ (pc \in {"poll_mode", "poll_trigger"}) =>
           current_mode' = current_mode ]_vars
  /\ [][ (TriggerReturnStep /\ media' # None) =>
           CASE ModeOfPreviousTick = 0 ->
                  /\ Len(produced') = Len(produced) + 1
                  /\ startswith(LastProduced', IMG)
                  /\ UNCHANGED <<is_recording, video_writer>>
             [] ModeOfPreviousTick = 1 /\ is_recording ->
                  ~is_recording' /\ produced' = produced
             [] ModeOfPreviousTick = 1 /\ ~is_recording ->
                  /\ is_recording'
                  /\ Len(produced') = Len(produced) + 1
                  /\ startswith(LastProduced', MOV) ]_vars

\* in one tick the mode switch went from Photo to Video and the trigger
\* changed level: a still was saved, no recording started
C20_Witness ==
  /\ pc = "mode_update" /\ fired /\ media # None
  /\ mode_edge /\ sampled.mode = Some(1) /\ current_mode = 0
  /\ Len(produced) = 1 /\ startswith(basename(produced[1]), IMG)
  /\ ~is_recording /\ video_writer = None

====
